---- MODULE Spec2Model ----
(***************************************************************************)
(* Role-privilege cache (RolePrivilegesCache) and the read-through /       *)
(* periodic refresh service built on it (rbacService).                     *)
(*                                                                         *)
(* A privilege map map[string]bool whose values are all true is modelled   *)
(* as the set of its keys; the nil map is the distinguished set NilMap.    *)
(* The cache table map[string]map[string]bool is a function whose domain   *)
(* is the set of keys present in the table.                                *)
(***************************************************************************)
EXTENDS Integers, Sequences, FiniteSets, TLC

\* ------------------------------------------------------------------ bounds
MaxCalls == 3          \* operations started by the caller threads
MaxTicks == 1          \* ticks delivered by the refresh ticker
MaxStoreChanges == 1   \* changes made to the backing store by its owner

\* ------------------------------------------------------------- value sets
Threads == {"t1", "t2"}
Refresher == "refresh"
Procs == Threads \cup {Refresher}

Roles == {"admin", "guest"}
Privs == {"read:compliance", "write:compliance"}
PrivSets == SUBSET Privs

NilMap == {"<nil>"}
NoErr == "nil"
StoreErr == "store error"

EmptyTable == [r \in {} |-> {}]

\* the seed data of example/main.go: admin holds read:compliance, guest nothing
SeedStore == [r \in Roles |-> IF r = "admin" THEN {"read:compliance"} ELSE {}]

\* argument lists offered to SetNewRolePrivileges
NewCodeLists == { <<>>, <<"write:compliance", "write:compliance">> }

\* argument lists offered to HasAnyPrivilege
CodeLists == { <<>>,
               <<"read:compliance">>,
               <<"write:compliance", "write:compliance">>,
               <<"write:compliance", "read:compliance">> }

\* refresh intervals given to NewRBACService: negative, zero, positive
Intervals == {-1, 0, 1}

LookupOps == {"GetRolePrivileges", "HasPrivilege", "HasAnyPrivilege"}
CacheOps == {"Get", "Set", "Delete", "ClearCache", "GetAllKeys"}

Range(s) == {s[k] : k \in 1..Len(s)}

\* all orders in which a range loop over a Go map can deliver the keys of S
Perms(S) == {s \in [1..Cardinality(S) -> S] : Range(s) = S}

\* ------------------------------------------------- RolePrivilegesCache data
\* privileges, exist := c.cache[roleID]
CacheGetEmptyIsAbsent(c, r) ==
    IF r \in DOMAIN c /\ c[r] # {} THEN [privileges |-> c[r], exist |-> TRUE]
    ELSE [privileges |-> NilMap, exist |-> FALSE]
CacheGetFoundAlways(c, r) ==
    [privileges |-> IF r \in DOMAIN c THEN c[r] ELSE {}, exist |-> TRUE]
CacheGet(c, r) ==
    IF r \in DOMAIN c THEN [privileges |-> c[r], exist |-> TRUE]
    ELSE [privileges |-> NilMap, exist |-> FALSE]

\* c.cache[roleID] = privileges
CacheSetKeepOld(c, r, p) ==
    [k \in DOMAIN c \cup {r} |-> IF k \in DOMAIN c THEN c[k] ELSE p]
CacheSetMerge(c, r, p) ==
    [k \in DOMAIN c \cup {r} |->
        IF k = r THEN (IF r \in DOMAIN c THEN c[r] \cup p ELSE p) ELSE c[k]]
CacheSet(c, r, p) ==
    [k \in DOMAIN c \cup {r} |-> IF k = r THEN p ELSE c[k]]

\* delete(c.cache, roleID)
CacheDeleteNoop(c, r) == c
CacheDeleteAll(c, r) == EmptyTable
CacheDelete(c, r) == [k \in DOMAIN c \ {r} |-> c[k]]

\* c.cache = make(map[string]map[string]bool)
CacheClearPartial(c) == [k \in DOMAIN c \ {"admin"} |-> c[k]]
CacheClear(c) == EmptyTable

\* keys of the table in the order the range loop happens to deliver them
CacheKeysSkipping(c) == Perms(DOMAIN c \ {"guest"})
CacheKeys(c) == Perms(DOMAIN c)

\* ----------------------------------------------------- sync.RWMutex (c.mu)
\* mu.writer: a Lock() call has taken the writer slot (pending or holding);
\* mu.readers: number of RLock() holders.
CanRLockIgnoringWriter(m) == TRUE
CanRLock(m) == ~m.writer

CanLock(m) == ~m.writer

ReadersDrained(m) == m.readers = 0

UnlockKeepsWriter(m) == m
UnlockMu(m) == [m EXCEPT !.writer = FALSE]

\* ------------------------------------------------------ rbacService helpers
\* privilegesMap of SetNewRolePrivileges: every listed code mapped to true
PrivilegesMap(codes) == Range(codes)

\* the loop of HasAnyPrivilege: true at the first code the map holds
RECURSIVE AnyCode(_, _)
AnyCode(privs, codes) ==
    IF codes = <<>> THEN FALSE
    ELSE IF Head(codes) \in privs THEN TRUE
    ELSE AnyCode(privs, Tail(codes))

\* return values as a record: the map, the boolean and the error
Result(p, b, e) == [privileges |-> p, bool |-> b, err |-> e]
NoResult == Result(NilMap, FALSE, NoErr)

GetRolePrivilegesResult(privs, e) ==
    IF e # NoErr THEN Result(NilMap, FALSE, e) ELSE Result(privs, FALSE, NoErr)

HasPrivilegeResultNonEmpty(privs, e, privilege) ==
    IF e # NoErr THEN Result(NilMap, FALSE, e)
    ELSE Result(NilMap, privs # {}, NoErr)
HasPrivilegeResult(privs, e, privilege) ==
    IF e # NoErr THEN Result(NilMap, FALSE, e)
    ELSE Result(NilMap, privilege \in privs, NoErr)

HasAnyPrivilegeResultFirstOnly(privs, e, privilegeCodes) ==
    IF e # NoErr THEN Result(NilMap, FALSE, e)
    ELSE Result(NilMap,
                privilegeCodes # <<>> /\ Head(privilegeCodes) \in privs, NoErr)
HasAnyPrivilegeResult(privs, e, privilegeCodes) ==
    IF e # NoErr THEN Result(NilMap, FALSE, e)
    ELSE Result(NilMap, AnyCode(privs, privilegeCodes), NoErr)

LookupResult(o, privs, e, a) ==
    CASE o = "GetRolePrivileges" -> GetRolePrivilegesResult(privs, e)
      [] o = "HasPrivilege" -> HasPrivilegeResult(privs, e, a[1])
      [] o = "HasAnyPrivilege" -> HasAnyPrivilegeResult(privs, e, a)

\* ------------------------------------------------------------------- state
VARIABLES
    cache,            \* RolePrivilegesCache.cache
    mu,               \* RolePrivilegesCache.mu
    store,            \* the data behind the PrivilegeRepository
    refreshInterval,  \* argument of NewRBACService
    pc,               \* position of every goroutine
    op,               \* operation a goroutine is running
    cop,              \* cache method it is inside
    roleID,           \* roleID argument / loop variable
    arg,              \* privilege codes given to the operation
    privileges,       \* local variable privileges
    exist,            \* local variable exist of Get
    err,              \* local variable err
    ret,              \* value returned by the operation
    roleIDs,          \* result of GetAllKeys (the snapshot of a refresh cycle)
    i,                \* position of the refresh loop in roleIDs
    calls, ticks, changes,   \* budget counters
    nfetch,           \* history: store invocations made by the running call
    fetched,          \* history: what the store returned to the running call
    refetched,        \* history: roles the current refresh cycle asked the store for
    logged,           \* history: roles the current refresh cycle handed to logger.Errorw
    delReturned,      \* history: DeleteRolePrivileges(r) returned, no lookup of r began since
    setSinceDel,      \* history: a Set(r) was applied after the last Delete(r)
    written,          \* history: argument of the last Set(r) that no Delete(r) or
                      \*          ClearCache followed (NilMap: there is none)
    afterDel,         \* history: the lookup that just read the table is the first after a delete
    dirty,            \* history: setSinceDel as that lookup read the table
    phase             \* history: progress of a store change towards the cache

locals == <<op, cop, roleID, arg, privileges, exist, err, ret, roleIDs, nfetch,
            fetched, afterDel, dirty>>
history == <<refetched, logged, delReturned, setSinceDel, written, phase>>
vars == <<cache, mu, store, refreshInterval, pc, i, calls, ticks,
          changes, locals, history>>

\* cache: make(map[string]map[string]bool), unlocked mutex, nothing running
Init ==
    /\ cache = EmptyTable
    /\ mu = [writer |-> FALSE, readers |-> 0]
    /\ store = SeedStore
    /\ refreshInterval \in Intervals
    /\ pc = [p \in Procs |-> IF p = Refresher THEN "ticker" ELSE "idle"]
    /\ op = [p \in Procs |-> IF p = Refresher THEN "refresh" ELSE "none"]
    /\ cop = [p \in Procs |-> "none"]
    /\ roleID = [p \in Procs |-> ""]
    /\ arg = [p \in Procs |-> <<>>]
    /\ privileges = [p \in Procs |-> NilMap]
    /\ exist = [p \in Procs |-> FALSE]
    /\ err = [p \in Procs |-> NoErr]
    /\ ret = [p \in Procs |-> NoResult]
    /\ roleIDs = [p \in Procs |-> <<>>]
    /\ i = 0
    /\ calls = 0 /\ ticks = 0 /\ changes = 0
    /\ nfetch = [p \in Procs |-> 0]
    /\ fetched = [p \in Procs |-> NilMap]
    /\ refetched = {}
    /\ logged = {}
    /\ delReturned = [r \in Roles |-> FALSE]
    /\ setSinceDel = [r \in Roles |-> FALSE]
    /\ written = [r \in Roles |-> NilMap]
    /\ afterDel = [p \in Procs |-> FALSE]
    /\ dirty = [p \in Procs |-> FALSE]
    /\ phase = [r \in Roles |-> "none"]

\* a stand-alone cache: no service around it, so no refresh goroutine
InitCache == Init /\ refreshInterval = 0

\* goroutines inside a critical section of c.mu
InRead(p) == pc[p] \in {"Read", "RUnlock"}
InWrite(p) == pc[p] \in {"Write", "Unlock"}

\* a map access that overlaps a write of another goroutine is a data race:
\* the runtime may abort ("concurrent map read and map write") or carry on
ReadRace(self) == \E q \in Procs \ {self} : InWrite(q)
WriteRace(self) == \E q \in Procs \ {self} : InWrite(q) \/ InRead(q)
Outcomes(race, normal) == IF race THEN {normal, "panic"} ELSE {normal}

\* A finished call hands its result to its caller before anything else is
\* scheduled: the return touches no shared state, so where it falls in the
\* interleaving makes no difference to the other goroutines.
NoReturnPending == \A p \in Procs : pc[p] # "done"
\* Callers that are not inside a call are indistinguishable, so a new call is
\* taken by the first free one.
Before(p, q) == p = "t1" /\ q = "t2"
Idle(p) ==
    /\ pc[p] = "idle"
    /\ NoReturnPending
    /\ \A q \in Threads : Before(q, p) => pc[q] # "idle"

Finish(self, r) ==
    /\ pc' = [pc EXCEPT ![self] = "done"]
    /\ ret' = [ret EXCEPT ![self] = r]

\* =========================================================================
\* The cache alone: goroutines call the methods of one RolePrivilegesCache,
\* every lock operation and every map access being a step of its own.
\* =========================================================================

\* a goroutine calls a method of the cache
CacheCall(self) ==
    /\ Idle(self)
    /\ calls < MaxCalls
    /\ calls' = calls + 1
    /\ \E o \in CacheOps :
         \E r \in (IF o \in {"Get", "Set", "Delete"} THEN Roles ELSE {""}) :
           \E p \in (IF o = "Set" THEN PrivSets ELSE {NilMap}) :
              /\ op' = [op EXCEPT ![self] = o]
              /\ cop' = [cop EXCEPT ![self] = o]
              /\ roleID' = [roleID EXCEPT ![self] = r]
              /\ privileges' = [privileges EXCEPT ![self] = p]
              /\ pc' = [pc EXCEPT ![self] =
                           IF o \in {"Get", "GetAllKeys"} THEN "RLock" ELSE "Lock"]
    /\ UNCHANGED <<cache, mu, store, refreshInterval, i, ticks,
                   changes, arg, exist, err, ret, roleIDs, nfetch, fetched,
                   afterDel, dirty, history>>

\* c.mu.RLock()
RLock(self) ==
    /\ pc[self] = "RLock"
    /\ NoReturnPending
    /\ CanRLock(mu)
    /\ mu' = [mu EXCEPT !.readers = @ + 1]
    /\ pc' = [pc EXCEPT ![self] = "Read"]
    /\ UNCHANGED <<cache, store, refreshInterval, i, calls, ticks,
                   changes, locals, history>>

\* Get: privileges, exist := c.cache[roleID]
GetBody(self) ==
    /\ pc[self] = "Read" /\ cop[self] = "Get"
    /\ NoReturnPending
    /\ LET g == CacheGet(cache, roleID[self]) IN
         /\ privileges' = [privileges EXCEPT ![self] = g.privileges]
         /\ exist' = [exist EXCEPT ![self] = g.exist]
    /\ \E nxt \in Outcomes(ReadRace(self), "RUnlock") :
          pc' = [pc EXCEPT ![self] = nxt]
    /\ UNCHANGED <<cache, mu, store, refreshInterval, i, calls, ticks,
                   changes, op, cop, roleID, arg, err, ret, roleIDs, nfetch,
                   fetched, afterDel, dirty, history>>

\* GetAllKeys: for k := range c.cache { keys = append(keys, k) }
GetAllKeysBody(self) ==
    /\ pc[self] = "Read" /\ cop[self] = "GetAllKeys"
    /\ NoReturnPending
    /\ \E keys \in CacheKeys(cache) :
          roleIDs' = [roleIDs EXCEPT ![self] = keys]
    /\ \E nxt \in Outcomes(ReadRace(self), "RUnlock") :
          pc' = [pc EXCEPT ![self] = nxt]
    /\ UNCHANGED <<cache, mu, store, refreshInterval, i, calls, ticks,
                   changes, op, cop, roleID, arg, privileges, exist, err, ret,
                   nfetch, fetched, afterDel, dirty, history>>

\* defer c.mu.RUnlock(); Get returns (privileges, exist), GetAllKeys the keys
RUnlock(self) ==
    /\ pc[self] = "RUnlock"
    /\ NoReturnPending
    /\ mu' = [mu EXCEPT !.readers = @ - 1]
    /\ Finish(self, IF cop[self] = "Get"
                    THEN Result(privileges[self], exist[self], NoErr)
                    ELSE NoResult)
    /\ UNCHANGED <<cache, store, refreshInterval, i, calls, ticks,
                   changes, op, cop, roleID, arg, privileges, exist, err,
                   roleIDs, nfetch, fetched, afterDel, dirty, history>>

\* c.mu.Lock(): take the writer slot, which keeps new readers out ...
Lock(self) ==
    /\ pc[self] = "Lock"
    /\ NoReturnPending
    /\ CanLock(mu)
    /\ mu' = [mu EXCEPT !.writer = TRUE]
    /\ pc' = [pc EXCEPT ![self] = "LockWait"]
    /\ UNCHANGED <<cache, store, refreshInterval, i, calls, ticks,
                   changes, locals, history>>

\* ... then wait until the readers that were inside have left
LockWait(self) ==
    /\ pc[self] = "LockWait"
    /\ NoReturnPending
    /\ ReadersDrained(mu)
    /\ pc' = [pc EXCEPT ![self] = "Write"]
    /\ UNCHANGED <<cache, mu, store, refreshInterval, i, calls, ticks,
                   changes, locals, history>>

\* Set: c.cache[roleID] = privileges
SetBody(self) ==
    /\ pc[self] = "Write" /\ cop[self] = "Set"
    /\ NoReturnPending
    /\ cache' = CacheSet(cache, roleID[self], privileges[self])
    /\ \E nxt \in Outcomes(WriteRace(self), "Unlock") :
          pc' = [pc EXCEPT ![self] = nxt]
    /\ UNCHANGED <<mu, store, refreshInterval, i, calls, ticks,
                   changes, locals, refetched, logged, delReturned, setSinceDel, phase>>
    /\ written' = [written EXCEPT ![roleID[self]] = privileges[self]]

\* Delete: delete(c.cache, roleID)
DeleteBody(self) ==
    /\ pc[self] = "Write" /\ cop[self] = "Delete"
    /\ NoReturnPending
    /\ cache' = CacheDelete(cache, roleID[self])
    /\ \E nxt \in Outcomes(WriteRace(self), "Unlock") :
          pc' = [pc EXCEPT ![self] = nxt]
    /\ UNCHANGED <<mu, store, refreshInterval, i, calls, ticks,
                   changes, locals, refetched, logged, delReturned, setSinceDel, phase>>
    /\ written' = [written EXCEPT ![roleID[self]] = NilMap]

\* ClearCache: c.cache = make(map[string]map[string]bool)
ClearCacheBody(self) ==
    /\ pc[self] = "Write" /\ cop[self] = "ClearCache"
    /\ NoReturnPending
    /\ cache' = CacheClear(cache)
    /\ \E nxt \in Outcomes(WriteRace(self), "Unlock") :
          pc' = [pc EXCEPT ![self] = nxt]
    /\ UNCHANGED <<mu, store, refreshInterval, i, calls, ticks,
                   changes, locals, refetched, logged, delReturned, setSinceDel, phase>>
    /\ written' = [r \in Roles |-> NilMap]

\* defer c.mu.Unlock()
Unlock(self) ==
    /\ pc[self] = "Unlock"
    /\ NoReturnPending
    /\ mu' = UnlockMu(mu)
    /\ Finish(self, NoResult)
    /\ UNCHANGED <<cache, store, refreshInterval, i, calls, ticks,
                   changes, op, cop, roleID, arg, privileges, exist, err,
                   roleIDs, nfetch, fetched, afterDel, dirty, history>>

\* the method has returned to its caller and its frame is gone; for the
\* refresh goroutine: the range loop is over and it waits for the next tick
Return(self) ==
    /\ pc[self] = "done"
    /\ pc' = [pc EXCEPT ![self] = IF self = Refresher THEN "ticker" ELSE "idle"]
    /\ op' = [op EXCEPT ![self] = IF self = Refresher THEN "refresh" ELSE "none"]
    /\ cop' = [cop EXCEPT ![self] = "none"]
    /\ roleID' = [roleID EXCEPT ![self] = ""]
    /\ arg' = [arg EXCEPT ![self] = <<>>]
    /\ privileges' = [privileges EXCEPT ![self] = NilMap]
    /\ exist' = [exist EXCEPT ![self] = FALSE]
    /\ err' = [err EXCEPT ![self] = NoErr]
    /\ ret' = [ret EXCEPT ![self] = NoResult]
    /\ roleIDs' = [roleIDs EXCEPT ![self] = <<>>]
    /\ nfetch' = [nfetch EXCEPT ![self] = 0]
    /\ fetched' = [fetched EXCEPT ![self] = NilMap]
    /\ afterDel' = [afterDel EXCEPT ![self] = FALSE]
    /\ dirty' = [dirty EXCEPT ![self] = FALSE]
    /\ i' = IF self = Refresher THEN 0 ELSE i
    /\ refetched' = IF self = Refresher THEN {} ELSE refetched
    /\ logged' = IF self = Refresher THEN {} ELSE logged
    /\ UNCHANGED <<cache, mu, store, refreshInterval, calls, ticks, changes,
                   delReturned, setSinceDel, written, phase>>

CacheStep(self) ==
    \/ RLock(self) \/ GetBody(self) \/ GetAllKeysBody(self) \/ RUnlock(self)
    \/ Lock(self) \/ LockWait(self)
    \/ SetBody(self) \/ DeleteBody(self) \/ ClearCacheBody(self)
    \/ Unlock(self)

NextCache ==
    \E self \in Threads : CacheCall(self) \/ CacheStep(self) \/ Return(self)

SpecCache == InitCache /\ [][NextCache]_vars

\* every goroutine that is inside a cache method keeps being scheduled; the
\* mutex hands the lock to a goroutine that finds it free again and again
FairCache ==
    \A self \in Threads :
        /\ WF_vars(CacheStep(self) \/ Return(self))
        /\ SF_vars(RLock(self))
        /\ SF_vars(Lock(self))

LiveCache == SpecCache /\ FairCache

\* =========================================================================
\* The service: callers run the RBACService methods, the refresh goroutine
\* runs startPeriodicRefresh.  A call of a cache method is one step here (the
\* mutex makes it atomic, which is what SpecCache is about); the store call
\* of loadRolePrivileges separates the Get from the Set.
\* =========================================================================

\* GetRolePrivileges: if !exist { load }
NeedsLoadAlways(ex) == TRUE
NeedsLoadNever(ex) == FALSE
NeedsLoad(ex) == ~ex

\* loadRolePrivileges: if err != nil { return nil, err } else s.cache.Set
LoadStoresAlways(e) == TRUE
LoadStores(e) == e = NoErr

\* startPeriodicRefresh: after logging an error the range loop goes on
NextIndexBreak(idx, ids) == Len(ids) + 1
NextIndexOnError(idx, ids) == idx + 1

\* NewRBACService: if refreshInterval > 0 { go startPeriodicRefresh }
RefreshStartedAlways(interval) == TRUE
RefreshStarted(interval) == interval > 0

\* FetchRolePrivileges runs a SELECT: the rows are afterwards what they were
RowsAfterFetchDropped(s, r) == [s EXCEPT ![r] = {}]
RowsAfterFetch(s, r) == s

\* the store's next answer for a role whose rows are rewritten
Revision(S) == Privs \ S

ArgsOf(o) ==
    CASE o = "GetRolePrivileges" -> {<<>>}
      [] o = "HasPrivilege" -> {<<c>> : c \in Privs}
      [] o = "HasAnyPrivilege" -> CodeLists

\* GetRolePrivileges hands (privs, e) to its caller: the application itself,
\* HasPrivilege or HasAnyPrivilege.  Their own arguments are not looked at
\* before this point, so this is where the model draws them.
FinishLookup(self, privs, e) ==
    \E o \in LookupOps : \E a \in ArgsOf(o) :
        /\ op' = [op EXCEPT ![self] = o]
        /\ arg' = [arg EXCEPT ![self] = a]
        /\ Finish(self, LookupResult(o, privs, e, a))

\* the refresh loop moves to entry n of its snapshot ids, or back to the ticker
RefreshGoto(ids, n) ==
    /\ i' = n
    /\ IF n <= Len(ids)
       THEN /\ pc' = [pc EXCEPT ![Refresher] = "Fetch"]
            /\ roleID' = [roleID EXCEPT ![Refresher] = ids[n]]
       ELSE /\ pc' = [pc EXCEPT ![Refresher] = "done"]
            /\ roleID' = [roleID EXCEPT ![Refresher] = ""]
    /\ privileges' = [privileges EXCEPT ![Refresher] = NilMap]
    /\ err' = [err EXCEPT ![Refresher] = NoErr]
    /\ fetched' = [fetched EXCEPT ![Refresher] = NilMap]

\* GetRolePrivileges, called directly or first thing by HasPrivilege and
\* HasAnyPrivilege: s.cache.Get(roleID), answer at once on a hit
GetRolePrivileges(self) ==
    /\ Idle(self)
    /\ calls < MaxCalls
    /\ calls' = calls + 1
    /\ \E r \in Roles :
           LET g == CacheGet(cache, r) IN
            /\ roleID' = [roleID EXCEPT ![self] = r]
            /\ privileges' = [privileges EXCEPT ![self] = g.privileges]
            /\ exist' = [exist EXCEPT ![self] = g.exist]
            /\ afterDel' = [afterDel EXCEPT ![self] = delReturned[r]]
            /\ dirty' = [dirty EXCEPT ![self] = setSinceDel[r]]
            /\ delReturned' = [delReturned EXCEPT ![r] = FALSE]
            /\ IF NeedsLoad(g.exist)
               THEN /\ pc' = [pc EXCEPT ![self] = "Fetch"]
                    /\ op' = [op EXCEPT ![self] = "GetRolePrivileges"]
                    /\ UNCHANGED <<arg, ret>>
               ELSE FinishLookup(self, g.privileges, NoErr)
    /\ err' = [err EXCEPT ![self] = NoErr]
    /\ nfetch' = [nfetch EXCEPT ![self] = 0]
    /\ fetched' = [fetched EXCEPT ![self] = NilMap]
    /\ UNCHANGED <<cache, mu, store, refreshInterval, i, ticks,
                   changes, cop, roleIDs, refetched, logged, setSinceDel,
                   written, phase>>

\* loadRolePrivileges: s.repo.FetchPrivilegesByRoleID answers with the store's
\* current set or with an error; an error ends the load
Fetch(self) ==
    /\ pc[self] = "Fetch"
    /\ NoReturnPending
    /\ nfetch' = [nfetch EXCEPT ![self] = @ + 1]
    /\ refetched' = IF self = Refresher THEN refetched \cup {roleID[self]}
                    ELSE refetched
    /\ \E e \in {NoErr, StoreErr} :
         LET got == IF e = NoErr THEN store[roleID[self]] ELSE NilMap IN
         IF LoadStores(e)
         THEN /\ privileges' = [privileges EXCEPT ![self] = got]
              /\ fetched' = [fetched EXCEPT ![self] = got]
              /\ err' = [err EXCEPT ![self] = e]
              /\ pc' = [pc EXCEPT ![self] = "Set"]
              /\ UNCHANGED <<ret, i, roleID, op, arg>>
         ELSE IF self = Refresher
              THEN /\ privileges' = [privileges EXCEPT ![self] = NilMap]
                   /\ fetched' = [fetched EXCEPT ![self] = NilMap]
                   /\ err' = [err EXCEPT ![self] = e]
                   /\ pc' = [pc EXCEPT ![self] = "Log"]
                   /\ UNCHANGED <<ret, i, roleID, op, arg>>
              ELSE /\ privileges' = [privileges EXCEPT ![self] = NilMap]
                   /\ fetched' = [fetched EXCEPT ![self] = NilMap]
                   /\ err' = [err EXCEPT ![self] = e]
                   /\ FinishLookup(self, NilMap, e)
                   /\ UNCHANGED <<i, roleID>>
    /\ afterDel' = [afterDel EXCEPT ![self] = FALSE]
    /\ dirty' = [dirty EXCEPT ![self] = FALSE]
    /\ store' = RowsAfterFetch(store, roleID[self])
    /\ UNCHANGED <<cache, mu, refreshInterval, calls, ticks, changes,
                   cop, exist, roleIDs, logged, delReturned, setSinceDel,
                   written, phase>>

\* startPeriodicRefresh: logger.Errorw(...), then on to the next role
LogError ==
    /\ pc[Refresher] = "Log"
    /\ NoReturnPending
    /\ logged' = logged \cup {roleID[Refresher]}
    /\ RefreshGoto(roleIDs[Refresher], NextIndexOnError(i, roleIDs[Refresher]))
    /\ UNCHANGED <<cache, mu, store, refreshInterval, calls, ticks, changes,
                   op, cop, arg, exist, ret, roleIDs, nfetch, afterDel, dirty,
                   refetched, delReturned, setSinceDel, written, phase>>

\* loadRolePrivileges: s.cache.Set(roleID, privileges); return privileges, nil
LoadSet(self) ==
    /\ pc[self] = "Set"
    /\ NoReturnPending
    /\ cache' = CacheSet(cache, roleID[self], privileges[self])
    /\ setSinceDel' = [setSinceDel EXCEPT ![roleID[self]] = TRUE]
    /\ written' = [written EXCEPT ![roleID[self]] = privileges[self]]
    /\ phase' = [phase EXCEPT ![roleID[self]] =
                    CASE self = Refresher /\ @ = "ticked" -> "refreshed"
                      [] self # Refresher /\ @ = "refreshed" -> "overwritten"
                      [] OTHER -> @]
    /\ IF self = Refresher
       THEN /\ RefreshGoto(roleIDs[self], i + 1)
            /\ UNCHANGED <<ret, op, arg>>
       ELSE /\ FinishLookup(self, privileges[self], err[self])
            /\ UNCHANGED <<i, roleID, privileges, err, fetched>>
    /\ UNCHANGED <<mu, store, refreshInterval, calls, ticks, changes,
                   cop, exist, roleIDs, nfetch, afterDel, dirty,
                   refetched, logged, delReturned>>

\* SetNewRolePrivileges: build privilegesMap, s.cache.Set, return nil
SetNewRolePrivileges(self) ==
    /\ Idle(self)
    /\ calls < MaxCalls
    /\ calls' = calls + 1
    /\ \E r \in Roles, a \in NewCodeLists :
         /\ op' = [op EXCEPT ![self] = "SetNewRolePrivileges"]
         /\ roleID' = [roleID EXCEPT ![self] = r]
         /\ arg' = [arg EXCEPT ![self] = a]
         /\ privileges' = [privileges EXCEPT ![self] = PrivilegesMap(a)]
         /\ cache' = CacheSet(cache, r, PrivilegesMap(a))
         /\ setSinceDel' = [setSinceDel EXCEPT ![r] = TRUE]
         /\ written' = [written EXCEPT ![r] = PrivilegesMap(a)]
         /\ phase' = [phase EXCEPT ![r] = "none"]
    /\ Finish(self, NoResult)
    /\ exist' = [exist EXCEPT ![self] = FALSE]
    /\ err' = [err EXCEPT ![self] = NoErr]
    /\ nfetch' = [nfetch EXCEPT ![self] = 0]
    /\ fetched' = [fetched EXCEPT ![self] = NilMap]
    /\ afterDel' = [afterDel EXCEPT ![self] = FALSE]
    /\ dirty' = [dirty EXCEPT ![self] = FALSE]
    /\ UNCHANGED <<mu, store, refreshInterval, i, ticks, changes,
                   cop, roleIDs, refetched, logged, delReturned>>

\* DeleteRolePrivileges: s.cache.Delete(roleID), return nil
DeleteRolePrivileges(self) ==
    /\ Idle(self)
    /\ calls < MaxCalls
    /\ calls' = calls + 1
    /\ \E r \in Roles :
         /\ op' = [op EXCEPT ![self] = "DeleteRolePrivileges"]
         /\ roleID' = [roleID EXCEPT ![self] = r]
         /\ cache' = CacheDelete(cache, r)
         /\ setSinceDel' = [setSinceDel EXCEPT ![r] = FALSE]
         /\ written' = [written EXCEPT ![r] = NilMap]
         /\ delReturned' = [delReturned EXCEPT ![r] = TRUE]
         /\ phase' = [phase EXCEPT ![r] = "none"]
    /\ Finish(self, NoResult)
    /\ arg' = [arg EXCEPT ![self] = <<>>]
    /\ privileges' = [privileges EXCEPT ![self] = NilMap]
    /\ exist' = [exist EXCEPT ![self] = FALSE]
    /\ err' = [err EXCEPT ![self] = NoErr]
    /\ nfetch' = [nfetch EXCEPT ![self] = 0]
    /\ fetched' = [fetched EXCEPT ![self] = NilMap]
    /\ afterDel' = [afterDel EXCEPT ![self] = FALSE]
    /\ dirty' = [dirty EXCEPT ![self] = FALSE]
    /\ UNCHANGED <<mu, store, refreshInterval, i, ticks, changes,
                   cop, roleIDs, refetched, logged>>

\* startPeriodicRefresh: a tick arrives, roleIDs := s.cache.GetAllKeys(),
\* and the range loop starts on the snapshot
Tick ==
    /\ pc[Refresher] = "ticker"
    /\ NoReturnPending
    /\ RefreshStarted(refreshInterval)
    /\ ticks < MaxTicks
    /\ ticks' = ticks + 1
    /\ UNCHANGED <<refetched, logged>>
    /\ phase' = [r \in Roles |-> IF phase[r] = "changed" THEN "ticked" ELSE phase[r]]
    /\ \E keys \in CacheKeys(cache) :
         /\ roleIDs' = [roleIDs EXCEPT ![Refresher] = keys]
         /\ RefreshGoto(keys, 1)
    /\ UNCHANGED <<cache, mu, store, refreshInterval, calls, changes,
                   op, cop, arg, exist, ret, nfetch, afterDel, dirty, delReturned,
                   setSinceDel, written>>

\* the owner of the backing store rewrites the privileges of one role
StoreUpdate ==
    /\ changes < MaxStoreChanges
    /\ NoReturnPending
    /\ changes' = changes + 1
    /\ \E r \in Roles :
         /\ store' = [store EXCEPT ![r] = Revision(@)]
         /\ phase' = [phase EXCEPT ![r] =
                         IF r \in DOMAIN cache THEN "changed" ELSE "none"]
    /\ UNCHANGED <<cache, mu, refreshInterval, pc, i, calls, ticks,
                   locals, refetched, logged, delReturned, setSinceDel, written>>

Next ==
    \/ \E self \in Threads :
          \/ GetRolePrivileges(self)
          \/ SetNewRolePrivileges(self)
          \/ DeleteRolePrivileges(self)
    \/ \E self \in Procs : Fetch(self) \/ LoadSet(self) \/ Return(self)
    \/ Tick
    \/ LogError
    \/ StoreUpdate

Spec == Init /\ [][Next]_vars

\* =========================================================================
\* Properties
\* =========================================================================

\* a lookup (GetRolePrivileges by itself or inside HasPrivilege /
\* HasAnyPrivilege) that has just handed its result to the caller
Returned(t) == pc[t] = "done" /\ op[t] \in LookupOps

\* C1: a GetRolePrivileges call that misses and whose store fetch succeeds
\* with S has invoked the store exactly once, returns (S, nil), and as it
\* returns the cache holds S for the role; S is the store's set (the seed
\* data as long as the store has not been rewritten).
C1_MissFetchesStoresReturns ==
    \A t \in Threads :
        (Returned(t) /\ op[t] = "GetRolePrivileges" /\ ~exist[t] /\ err[t] = NoErr) =>
            /\ nfetch[t] = 1
            /\ fetched[t] \in PrivSets
            /\ ret[t] = [privileges |-> fetched[t], bool |-> FALSE, err |-> NoErr]
            /\ roleID[t] \in DOMAIN cache
            /\ cache[roleID[t]] = fetched[t]
            /\ (changes = 0 => fetched[t] = SeedStore[roleID[t]])

C1_Witness ==
    \E t \in Threads :
        /\ Returned(t) /\ op[t] = "GetRolePrivileges" /\ ~exist[t]
        /\ err[t] = NoErr /\ nfetch[t] = 1
        /\ ret[t].privileges = {"read:compliance"}
        /\ cache[roleID[t]] = {"read:compliance"}

\* C2: a lookup that finds the role in the cache never calls the store (no
\* goroutine that found the role is at, or past, the store call) and its
\* answer is computed from the cached set.
C2_HitNeverFetches ==
    \A t \in Threads :
        /\ (pc[t] \in {"Fetch", "Set"} => ~exist[t])
        /\ (Returned(t) /\ exist[t]) =>
              /\ nfetch[t] = 0
              /\ roleID[t] \in DOMAIN cache
              /\ ret[t].err = NoErr
              /\ op[t] = "GetRolePrivileges" =>
                    ret[t].privileges = cache[roleID[t]]
              /\ op[t] = "HasPrivilege" =>
                    ret[t].bool = (arg[t][1] \in cache[roleID[t]])
              /\ op[t] = "HasAnyPrivilege" =>
                    ret[t].bool = (Range(arg[t]) \cap cache[roleID[t]] # {})

C2_Witness ==
    \E t \in Threads :
        /\ Returned(t) /\ exist[t] /\ nfetch[t] = 0
        /\ op[t] = "HasAnyPrivilege" /\ ret[t].bool
        /\ Len(arg[t]) = 2

\* C3: when the store fetch of a missing lookup fails, the step in which the
\* error arrives changes nothing in the cache and ends the call, which returns
\* the store's error (and no privileges); the failure leaves no entry behind
\* (no table entry is ever a nil map), so a later miss goes to the store again.
C3_FailedFetchStep ==
    \A t \in Threads :
        (err[t] = NoErr /\ err'[t] # NoErr) =>
            /\ pc[t] = "Fetch"
            /\ cache' = cache
            /\ pc'[t] = "done"
            /\ nfetch'[t] = 1
            /\ ret'[t].err = StoreErr
            /\ ret'[t].privileges = NilMap
            /\ ~ret'[t].bool

C3_FailedFetchLeavesCache ==
    /\ [][C3_FailedFetchStep]_vars
    /\ [](\A r \in DOMAIN cache : cache[r] \in PrivSets)
    /\ [](\A t \in Threads : (pc[t] = "Set" \/ exist[t]) => err[t] = NoErr)

C3_Witness ==
    \E t \in Threads :
        /\ Returned(t) /\ err[t] = StoreErr /\ ret[t].err = StoreErr
        /\ roleID[t] \notin DOMAIN cache
        /\ DOMAIN cache # {}

\* C4 (as claimed): the first lookup of r that starts after
\* DeleteRolePrivileges(r) returned goes to the store, whatever else is going on.
C4_DeleteForcesRefetchAlways ==
    \A t \in Threads : afterDel[t] => (pc[t] = "Fetch" /\ ~exist[t])

\* C4 (amended): the first lookup of r that starts after
\* DeleteRolePrivileges(r) returned goes to the store, provided no Set for r
\* (of a miss-fetch or refresh cycle in flight, or of SetNewRolePrivileges)
\* was applied between that delete and the lookup.
C4_DeleteForcesRefetchUnlessSet ==
    \A t \in Threads :
        (afterDel[t] /\ ~dirty[t]) => (pc[t] = "Fetch" /\ ~exist[t])

C4_Witness ==
    \E t \in Threads :
        /\ afterDel[t] /\ ~dirty[t] /\ pc[t] = "Fetch"
        /\ roleID[t] \notin DOMAIN cache
        /\ DOMAIN cache # {}

C6_RefreshFailureStep ==
    (pc'[Refresher] # pc[Refresher] /\ pc[Refresher] # "Set") => cache' = cache

C6_RefreshFailureKeepsTable ==
    /\ [][C6_RefreshFailureStep]_vars
    /\ [](pc[Refresher] = "Set" =>
            /\ err[Refresher] = NoErr
            /\ privileges[Refresher] \in PrivSets
            /\ privileges[Refresher] = fetched[Refresher])
    /\ [](pc[Refresher] = "Log" => err[Refresher] = StoreErr)

C6_Witness ==
    /\ pc[Refresher] = "Log"
    /\ i = 1
    /\ DOMAIN cache = Roles
    /\ cache[roleID[Refresher]] # store[roleID[Refresher]]

\* C7 (as claimed): once a store change for a cached role has been followed by
\* a tick and that cycle has written the role, the cache holds the store's
\* set, as long as no SetNewRolePrivileges / DeleteRolePrivileges touched it.
C7_RefreshPropagatesAlways ==
    \A r \in Roles :
        phase[r] \in {"refreshed", "overwritten"} =>
            (r \in DOMAIN cache /\ cache[r] = store[r])

\* C7 (amended): ... as long as no SetNewRolePrivileges /
\* DeleteRolePrivileges touched it and no lookup that missed earlier has
\* applied its Set for the role after the cycle's.
C7_RefreshPropagatesUnlessLateSet ==
    \A r \in Roles :
        phase[r] = "refreshed" => (r \in DOMAIN cache /\ cache[r] = store[r])

C7_Witness ==
    \E r \in Roles :
        /\ phase[r] = "refreshed"
        /\ r \in DOMAIN cache
        /\ cache[r] = store[r]
        /\ store[r] # SeedStore[r]
        /\ refreshInterval > 0

\* C8: while a Set, Delete or ClearCache holds the table no other goroutine is
\* inside a critical section; readers may share it; and what a Get or
\* GetAllKeys has read is the table as it stands while the reader holds the
\* lock.
C8_ReaderWriterExclusion ==
    /\ \A p \in Threads : InWrite(p) =>
          \A q \in Threads \ {p} : ~InWrite(q) /\ ~InRead(q)
    /\ mu.readers = Cardinality({p \in Threads : InRead(p)})
    /\ (\E p \in Threads : InWrite(p)) => mu.writer
    /\ \A p \in Threads : pc[p] = "RUnlock" =>
          IF cop[p] = "Get"
          THEN /\ exist[p] = (roleID[p] \in DOMAIN cache)
               /\ exist[p] => privileges[p] = cache[roleID[p]]
          ELSE /\ Range(roleIDs[p]) = DOMAIN cache
               /\ Len(roleIDs[p]) = Cardinality(DOMAIN cache)

C8_Witness ==
    \E p, q \in Threads :
        /\ p # q
        /\ InRead(p) /\ InRead(q)
        /\ mu.readers = 2

\* what one Set / Delete / ClearCache makes of table c
Applied(c, d, o, r, p) ==
    CASE o = "Set" -> /\ DOMAIN d = DOMAIN c \cup {r}
                      /\ d[r] = p
                      /\ \A k \in DOMAIN c \ {r} : d[k] = c[k]
      [] o = "Delete" -> /\ DOMAIN d = DOMAIN c \ {r}
                         /\ \A k \in DOMAIN d : d[k] = c[k]
      [] o = "ClearCache" -> DOMAIN d = {}
      [] OTHER -> FALSE

\* C9: the table changes only by one whole Set, Delete or ClearCache at a
\* time, applied by the goroutine holding the write lock to the table the
\* previous one left: the entry of a role is what the last applied operation
\* made it (the argument of a Set, never a merge with what was there).
C9_WriteStep ==
    /\ \A p \in Threads :
          (pc[p] = "Write" /\ pc'[p] = "Unlock") =>
              Applied(cache, cache', cop[p], roleID[p], privileges[p])
    /\ cache' # cache =>
          \E p \in Threads : pc[p] = "Write" /\ pc'[p] = "Unlock" /\ InWrite(p)

C9_OneWriteAtATime == [][C9_WriteStep]_vars

C9_Witness ==
    \E p, q \in Threads :
        /\ cop[p] = "Set" /\ cop[q] = "Set" /\ roleID[p] = roleID[q]
        /\ privileges[p] = {"read:compliance"}
        /\ privileges[q] = {"write:compliance"}
        /\ pc[p] = "Lock"
        /\ pc[q] = "Unlock"
        /\ cache[roleID[q]] = {"write:compliance"}

\* C10: under fair scheduling every cache method that was called gets the
\* lock, finishes and gives the lock back; none ends in a runtime panic.
C10_CacheOpsTerminate ==
    /\ \A p \in Threads :
          (pc[p] \in {"RLock", "Lock", "LockWait", "Read", "Write", "RUnlock", "Unlock"})
              ~> (pc[p] = "done")
    /\ [](\A p \in Threads : pc[p] # "panic")
    /\ []((\A p \in Threads : pc[p] \in {"idle", "done"}) =>
              mu = [writer |-> FALSE, readers |-> 0])

C10_Witness ==
    \E p, q \in Threads :
        /\ pc[p] = "LockWait" /\ InRead(q)
        /\ calls = MaxCalls

\* C11: GetAllKeys returns every role that has an entry, and nothing else,
\* each of them once: a role is in the returned list exactly when a Get of it
\* finds it, whether the Get is asked of the table or is running next to the
\* GetAllKeys.
C11_GetAllKeysExact ==
    /\ \A keys \in CacheKeys(cache) :
          /\ \A r \in Roles : (r \in Range(keys)) <=> CacheGet(cache, r).exist
          /\ Len(keys) = Cardinality(Range(keys))
    /\ \A p \in Threads :
          (cop[p] = "GetAllKeys" /\ pc[p] \in {"RUnlock", "done"}) =>
              /\ \A r \in Roles :
                    (r \in Range(roleIDs[p])) <=> CacheGet(cache, r).exist
              /\ Len(roleIDs[p]) = Cardinality(Range(roleIDs[p]))
              /\ \A q \in Threads :
                    (cop[q] = "Get" /\ pc[q] = "RUnlock") =>
                        (exist[q] <=> roleID[q] \in Range(roleIDs[p]))

C11_Witness ==
    \E p \in Threads :
        /\ cop[p] = "GetAllKeys" /\ pc[p] = "done"
        /\ Len(roleIDs[p]) = 2
        /\ roleIDs[p][1] = "guest"

\* C12: the step of Set(r, p) makes the entry of r exactly p, whatever was
\* there, and leaves every other role as it was; a Get(r) that reads the table
\* while that Set is the last mutation of r returns (p, true).
C12_SetStep ==
    \A p \in Threads :
        (pc[p] = "Write" /\ cop[p] = "Set" /\ pc'[p] # pc[p]) =>
            /\ CacheGet(cache', roleID[p]) =
                  [privileges |-> privileges[p], exist |-> TRUE]
            /\ \A k \in Roles \ {roleID[p]} :
                  CacheGet(cache', k) = CacheGet(cache, k)
            /\ Cardinality(DOMAIN cache' \ {roleID[p]}) =
                  Cardinality(DOMAIN cache \ {roleID[p]})

C12_SetThenGet ==
    /\ [][C12_SetStep]_vars
    /\ [](\A q \in Threads :
            (cop[q] = "Get" /\ pc[q] \in {"RUnlock", "done"}
                /\ written[roleID[q]] # NilMap) =>
                   /\ exist[q]
                   /\ privileges[q] = written[roleID[q]]
                   /\ pc[q] = "done" =>
                         ret[q] = Result(written[roleID[q]], TRUE, NoErr))

C12_Witness ==
    \E q \in Threads :
        /\ cop[q] = "Get" /\ pc[q] = "done"
        /\ ret[q] = Result({"write:compliance"}, TRUE, NoErr)
        /\ DOMAIN cache = {roleID[q]}
        /\ calls = MaxCalls

\* C13: a Get reports found = false (and the nil map) exactly when the role has
\* no entry, that is when no Set of it has been applied since the last Delete
\* of it or ClearCache (or ever); no step of a Get changes the table or calls
\* the store.
C13_GetStep ==
    \A p \in Threads :
        (cop[p] = "Get" /\ pc'[p] # pc[p]) =>
            /\ cache' = cache
            /\ written' = written
            /\ nfetch' = nfetch
            /\ store' = store

C13_GetIsPureLookup ==
    /\ [][C13_GetStep]_vars
    /\ [](\A p \in Threads :
            (cop[p] = "Get" /\ pc[p] \in {"RUnlock", "done"}) =>
                /\ ~exist[p] <=> written[roleID[p]] = NilMap
                /\ ~exist[p] <=> roleID[p] \notin DOMAIN cache
                /\ ~exist[p] => privileges[p] = NilMap
                /\ pc[p] = "done" =>
                      ret[p] = Result(privileges[p], exist[p], NoErr))

C13_Witness ==
    \E p \in Threads :
        /\ cop[p] = "Get" /\ pc[p] = "done"
        /\ ret[p] = Result(NilMap, FALSE, NoErr)
        /\ DOMAIN cache = Roles \ {roleID[p]}

\* C14: the step of Delete(r) leaves no entry of r, leaves every other role as
\* it was and, when r had no entry, leaves the table as it was; the Delete
\* then returns (there is nothing it could report), and a Get of r that reads
\* the table before r is set again finds nothing.
C14_DeleteStep ==
    \A p \in Threads :
        (pc[p] = "Write" /\ cop[p] = "Delete" /\ pc'[p] # pc[p]) =>
            /\ ~CacheGet(cache', roleID[p]).exist
            /\ \A k \in Roles \ {roleID[p]} :
                  CacheGet(cache', k) = CacheGet(cache, k)
            /\ roleID[p] \notin DOMAIN cache => cache' = cache
            /\ pc'[p] = "Unlock"

C14_DeleteRemovesOnlyRole ==
    /\ [][C14_DeleteStep]_vars
    /\ [](\A p \in Threads :
            (cop[p] = "Delete" /\ pc[p] \in {"Unlock", "done"}) =>
                /\ ~CacheGet(cache, roleID[p]).exist
                /\ written[roleID[p]] = NilMap
                /\ ret[p] = NoResult)
    /\ [](\A q \in Threads :
            (cop[q] = "Get" /\ pc[q] = "RUnlock"
                /\ written[roleID[q]] = NilMap) => ~exist[q])

C14_Witness ==
    \E p \in Threads :
        /\ cop[p] = "Delete" /\ pc[p] = "done"
        /\ DOMAIN cache = Roles \ {roleID[p]}
        /\ calls = MaxCalls

\* C15: the step of ClearCache leaves an empty table, whatever was in it, so
\* that GetAllKeys then returns the empty list; it is taken while no Get or
\* GetAllKeys is inside its critical section, and what a GetAllKeys or Get has
\* read is always one whole table.
C15_ClearStep ==
    \A p \in Threads :
        (pc[p] = "Write" /\ cop[p] = "ClearCache" /\ pc'[p] # pc[p]) =>
            /\ DOMAIN cache' = {}
            /\ CacheKeys(cache') = {<<>>}
            /\ \A q \in Threads \ {p} : ~InRead(q) /\ ~InWrite(q)
            /\ pc'[p] = "Unlock"

C15_ClearIsAtomic ==
    /\ [][C15_ClearStep]_vars
    /\ [](\A p \in Threads :
            (cop[p] = "ClearCache" /\ pc[p] \in {"Unlock", "done"}) =>
                /\ CacheKeys(cache) = {<<>>}
                /\ \A r \in Roles : written[r] = NilMap)
    /\ [](\A q \in Threads :
            pc[q] = "RUnlock" =>
                IF cop[q] = "GetAllKeys"
                THEN Range(roleIDs[q]) = {r \in Roles : written[r] # NilMap}
                ELSE exist[q] <=> written[roleID[q]] # NilMap)

C15_Witness ==
    \E p, q \in Threads :
        /\ cop[p] = "ClearCache" /\ pc[p] = "Unlock"
        /\ cop[q] = "GetAllKeys" /\ pc[q] = "RLock"
        /\ cache = EmptyTable
        /\ calls = MaxCalls

\* C16: HasAnyPrivilege answers (true, nil) exactly when one of the given
\* codes is in the set its GetRolePrivileges call obtained (from the cache or
\* from the store), (false, nil) when none is, in particular for an empty
\* list; when the fetch of a miss fails it answers (false, err).
C16_HasAnyPrivilege ==
    \A t \in Threads :
        (Returned(t) /\ op[t] = "HasAnyPrivilege") =>
            LET got == GetRolePrivilegesResult(privileges[t], err[t]) IN
            /\ ret[t].privileges = NilMap
            /\ ret[t].err = got.err
            /\ got.err = NoErr =>
                  /\ got.privileges \in PrivSets
                  /\ got.privileges = cache[roleID[t]]
                  /\ ret[t].bool <=>
                        \E k \in 1..Len(arg[t]) : arg[t][k] \in got.privileges
                  /\ arg[t] = <<>> => ~ret[t].bool
            /\ got.err # NoErr =>
                  /\ ~ret[t].bool
                  /\ got.err = StoreErr
                  /\ ~exist[t] /\ nfetch[t] = 1

C16_Witness ==
    \E t \in Threads :
        /\ Returned(t) /\ op[t] = "HasAnyPrivilege"
        /\ ~exist[t] /\ nfetch[t] = 1
        /\ arg[t] = <<"write:compliance", "read:compliance">>
        /\ privileges[t] = {"read:compliance"}
        /\ ret[t] = Result(NilMap, TRUE, NoErr)

\* C17: HasPrivilege answers (true, nil) when the code is in the set its
\* GetRolePrivileges call obtained, (false, nil) when it is not, and
\* (false, err) with the store's error when the fetch of a miss fails.
C17_HasPrivilege ==
    \A t \in Threads :
        (Returned(t) /\ op[t] = "HasPrivilege") =>
            LET got == GetRolePrivilegesResult(privileges[t], err[t]) IN
            /\ Len(arg[t]) = 1
            /\ got.err = NoErr =>
                  /\ got.privileges = cache[roleID[t]]
                  /\ ret[t] = Result(NilMap, arg[t][1] \in got.privileges, NoErr)
            /\ got.err # NoErr =>
                  /\ ret[t] = Result(NilMap, FALSE, StoreErr)
                  /\ ~exist[t] /\ nfetch[t] = 1

C17_Witness ==
    \E t \in Threads :
        /\ Returned(t) /\ op[t] = "HasPrivilege"
        /\ arg[t] = <<"write:compliance">>
        /\ privileges[t] = {"read:compliance"}
        /\ ret[t] = Result(NilMap, FALSE, NoErr)

\* C18: SetNewRolePrivileges returns nil without calling the store and leaves
\* as the entry of the role the set of the codes given; a lookup that finds a
\* role answers from the set last written for it, without a store call.
C18_SetNewRolePrivileges ==
    \A t \in Threads :
        /\ op[t] = "SetNewRolePrivileges" =>
              /\ pc[t] = "done"
              /\ ret[t] = Result(NilMap, FALSE, NoErr)
              /\ nfetch[t] = 0 /\ fetched[t] = NilMap
              /\ CacheGet(cache, roleID[t]) =
                    [privileges |-> {arg[t][k] : k \in 1..Len(arg[t])},
                     exist |-> TRUE]
              /\ written[roleID[t]] = cache[roleID[t]]
        /\ (Returned(t) /\ exist[t]) =>
              /\ nfetch[t] = 0
              /\ privileges[t] = written[roleID[t]]
              /\ op[t] = "GetRolePrivileges" =>
                    ret[t] = Result(written[roleID[t]], FALSE, NoErr)

C18_Witness ==
    \E t \in Threads :
        /\ Returned(t) /\ op[t] = "GetRolePrivileges"
        /\ exist[t] /\ nfetch[t] = 0
        /\ roleID[t] = "admin"
        /\ ret[t] = Result({}, FALSE, NoErr)
        /\ store["admin"] # {}

\* C19: the rows of the store change only when their owner rewrites them: no
\* step of a lookup, of SetNewRolePrivileges, of DeleteRolePrivileges or of the
\* refresh goroutine changes them; DeleteRolePrivileges returns nil at once
\* and never calls the store.
C19_StoreStep ==
    /\ store' # store =>
          /\ changes' = changes + 1
          /\ pc' = pc /\ cache' = cache /\ nfetch' = nfetch
    /\ \A p \in Procs : pc'[p] # pc[p] => store' = store

C19_StoreNeverChanged ==
    /\ [][C19_StoreStep]_vars
    /\ [](\A t \in Threads :
            op[t] = "DeleteRolePrivileges" =>
                /\ pc[t] = "done"
                /\ ret[t] = Result(NilMap, FALSE, NoErr)
                /\ nfetch[t] = 0
                /\ roleID[t] \notin DOMAIN cache)
    /\ [](changes = 0 => store = SeedStore)

C19_Witness ==
    \E t \in Threads :
        /\ op[t] = "DeleteRolePrivileges" /\ pc[t] = "done"
        /\ roleID[t] = "admin"
        /\ store = SeedStore
        /\ ticks = MaxTicks /\ calls = MaxCalls
        /\ DOMAIN cache = {"guest"}

\* C20: with a refresh interval of zero or less the refresh goroutine never
\* leaves its start: the store is called only by a lookup of a caller that
\* missed, the table changes only by the Set of such a lookup, by
\* SetNewRolePrivileges or by DeleteRolePrivileges, and a rewrite of the
\* store's rows changes no entry; the goroutine runs only with an interval
\* above zero.
C20_NoRefreshStep ==
    /\ refreshInterval <= 0 =>
          /\ pc'[Refresher] = "ticker" /\ ticks' = 0
          /\ \A p \in Procs :
                nfetch'[p] > nfetch[p] =>
                    /\ p \in Threads /\ pc[p] = "Fetch" /\ ~exist[p]
                    /\ op[p] \in LookupOps
          /\ cache' # cache =>
                \E t \in Threads :
                    \/ pc[t] = "Set" /\ ~exist[t] /\ nfetch[t] = 1
                    \/ /\ pc[t] = "idle"
                       /\ op'[t] \in {"SetNewRolePrivileges", "DeleteRolePrivileges"}
    /\ store' # store => cache' = cache

C20_RefreshOnlyIfPositive ==
    /\ [][C20_NoRefreshStep]_vars
    /\ []((ticks > 0 \/ pc[Refresher] # "ticker" \/ nfetch[Refresher] > 0)
             => refreshInterval > 0)

C20_Witness ==
    /\ refreshInterval < 0
    /\ changes = MaxStoreChanges /\ calls = MaxCalls
    /\ "admin" \in DOMAIN cache
    /\ cache["admin"] = SeedStore["admin"]
    /\ store["admin"] # SeedStore["admin"]
    /\ \A t \in Threads : pc[t] = "idle"

C22_EntryIsOneCompleteFetch ==
    /\ \A r \in DOMAIN cache :
          /\ cache[r] \in PrivSets
          /\ cache[r] = written[r]
          /\ cache[r] \in {SeedStore[r], Revision(SeedStore[r])}
                            \cup {PrivilegesMap(a) : a \in NewCodeLists}
    /\ \A p \in Procs :
          pc[p] = "Set" =>
              /\ err[p] = NoErr /\ nfetch[p] >= 1
              /\ privileges[p] = fetched[p]
              /\ fetched[p] \in {SeedStore[roleID[p]], Revision(SeedStore[roleID[p]])}
              /\ changes = 0 => fetched[p] = store[roleID[p]]

C22_Witness ==
    /\ "admin" \in DOMAIN cache
    /\ cache["admin"] = {"write:compliance"}
    /\ store["admin"] = {"write:compliance"}
    /\ \E t \in Threads :
          /\ pc[t] = "Set" /\ roleID[t] = "admin"
          /\ fetched[t] = {"read:compliance"}

\* C23: a lookup that misses on a role whose rows are the empty set returns
\* (empty set, nil) and leaves an entry with no privileges, which a Get finds
\* (found = true, not nil); a lookup that finds such an entry answers without
\* a store call, HasPrivilege and HasAnyPrivilege with (false, nil).
C23_EmptySetIsPresent ==
    \A t \in Threads :
        /\ (Returned(t) /\ ~exist[t] /\ err[t] = NoErr /\ fetched[t] = {}) =>
              /\ nfetch[t] = 1
              /\ op[t] = "GetRolePrivileges" => ret[t] = Result({}, FALSE, NoErr)
              /\ CacheGet(cache, roleID[t]) = [privileges |-> {}, exist |-> TRUE]
              /\ ~NeedsLoad(CacheGet(cache, roleID[t]).exist)
        /\ (Returned(t) /\ exist[t] /\ privileges[t] = {}) =>
              /\ nfetch[t] = 0
              /\ cache[roleID[t]] = {}
              /\ op[t] = "GetRolePrivileges" => ret[t] = Result({}, FALSE, NoErr)
              /\ op[t] # "GetRolePrivileges" => ret[t] = Result(NilMap, FALSE, NoErr)
        /\ \A r \in Roles :
              (r \in DOMAIN cache /\ cache[r] = {}) => CacheGet(cache, r).exist

C23_Witness ==
    \E t \in Threads :
        /\ Returned(t) /\ op[t] = "HasAnyPrivilege"
        /\ exist[t] /\ nfetch[t] = 0
        /\ roleID[t] = "guest" /\ store["guest"] = {}
        /\ Len(arg[t]) = 2
        /\ ret[t] = Result(NilMap, FALSE, NoErr)
        /\ calls = 2 /\ changes = 0

\* C24 (as claimed): whichever RBACService method is called for a role that
\* has no entry, the call goes to the store for that role.
C24_EveryMethodFetchesStep ==
    \A t \in Threads :
        (pc[t] = "idle" /\ pc'[t] # "idle" /\ roleID'[t] \notin DOMAIN cache) =>
            pc'[t] = "Fetch"

C25_LastCompletedWriteWins ==
    /\ \A r \in Roles :
          CacheGet(cache, r) =
              IF written[r] = NilMap
              THEN [privileges |-> NilMap, exist |-> FALSE]
              ELSE [privileges |-> written[r], exist |-> TRUE]
    /\ \A t \in Threads :
          /\ pc[t] = "Set" => (nfetch[t] = 1 /\ privileges[t] = fetched[t])
          /\ (Returned(t) /\ ~exist[t] /\ err[t] = NoErr) =>
                CacheGet(cache, roleID[t]).privileges = fetched[t]
          /\ (pc[t] = "done" /\ op[t] = "SetNewRolePrivileges") =>
                CacheGet(cache, roleID[t]).privileges = PrivilegesMap(arg[t])
          /\ (pc[t] = "done" /\ op[t] = "DeleteRolePrivileges") =>
                ~CacheGet(cache, roleID[t]).exist

C25_Witness ==
    /\ pc["t1"] = "Set" /\ pc["t2"] = "Set"
    /\ roleID["t1"] = "admin" /\ roleID["t2"] = "admin"
    /\ nfetch["t1"] = 1 /\ nfetch["t2"] = 1
    /\ fetched["t1"] = {"read:compliance"}
    /\ fetched["t2"] = {"write:compliance"}
    /\ ~delReturned["admin"]

C27_RefreshStep ==
    /\ (pc[Refresher] = "ticker" /\ pc'[Refresher] # "ticker") =>
          /\ Range(roleIDs'[Refresher]) = DOMAIN cache
          /\ Len(roleIDs'[Refresher]) = Cardinality(DOMAIN cache)
    /\ pc[Refresher] \in {"Fetch", "Set", "Log"} =>
          roleIDs'[Refresher] = roleIDs[Refresher]
    /\ (pc[Refresher] = "Set" /\ pc'[Refresher] # "Set") =>
          /\ roleID[Refresher] \in Range(roleIDs[Refresher])
          /\ CacheGet(cache', roleID[Refresher]) =
                [privileges |-> fetched[Refresher], exist |-> TRUE]
          /\ \A k \in Roles \ {roleID[Refresher]} :
                CacheGet(cache', k) = CacheGet(cache, k)
    /\ (pc[Refresher] # "Set" /\ pc'[Refresher] # pc[Refresher]) => cache' = cache

C27_RefreshWritesSnapshotRoles ==
    /\ [][C27_RefreshStep]_vars
    /\ [](pc[Refresher] \in {"Fetch", "Set", "Log"} =>
            roleID[Refresher] \in Range(roleIDs[Refresher]))
    /\ [](refetched \subseteq Range(roleIDs[Refresher]))

C27_Witness ==
    /\ pc[Refresher] = "Set"
    /\ roleID[Refresher] = "admin"
    /\ "admin" \notin DOMAIN cache
    /\ delReturned["admin"]
    /\ fetched[Refresher] = {"read:compliance"}

====
